---- MODULE Spec2Model ----
(***************************************************************************)
(* A model of the podcasts command line tool: the subscription catalog     *)
(* (podcast_list.csv), the per-subscription episode catalogs, the download *)
(* directory, the flows of Podcasts::run and Episodes::run, and the        *)
(* concurrent fetch of Web::get.                                           *)
(*                                                                         *)
(* A file is a record [exists, rows]; a catalog file's rows are csv rows   *)
(* (the header row is a row like any other), a downloaded file's rows are  *)
(* its bytes.  One invocation of the program is one action.                *)
(***************************************************************************)
EXTENDS Integers, Sequences, FiniteSets, TLC

VARIABLES
    app_directory,       \* Config.app_directory: file name -> file
    download_directory,  \* Config.download_directory: file name -> file
    last,                \* what the last invocation did: command, Web::get batch, result, stdout
    batch,               \* Web::get: the number of urls of the call under way
    pc,                  \* Web::get: where each request of the batch is
    sent,                \* Web::get: what send() gave each request
    copied,              \* Web::get: what copy_to gave each request
    bars,                \* Web::get: the requests whose progress bar is added to pbs
    finished,            \* Web::get: the bars that are finished (temp_pb is bar 0)
    renderer,            \* Web::get: the thread running pbs.join_and_clear()
    responses,           \* Web::get: the entries each request's closure has returned
    get                  \* Web::get: where the call itself is

flowvars == <<app_directory, download_directory, last>>
webvars == <<batch, pc, sent, copied, bars, finished, renderer, responses, get>>
vars == <<app_directory, download_directory, last, batch, pc, sent, copied, bars, finished,
          renderer, responses, get>>

(* ------------------------------ bounds -------------------------------- *)

\* Request values (--add / --remove) given to one invocation.
MaxValues == 2
\* Data rows the subscription catalog may hold before `add` is no longer run.
MaxRows == 2
\* Ids (--id) given to one `episodes list`.
MaxIds == 2
\* The largest --count given to `episodes download`.
MaxCount == 2
\* The urls of one Web::get call, in the model of the call itself.
MaxBatch == 5

(* ------------------------- program constants -------------------------- *)

\* rayon::ThreadPoolBuilder::new().num_threads(4)
PoolSize == 4

(* ------------------------------ data ---------------------------------- *)

None == "<none>"

\* The feed URLs of the model's world.
Urls == {"u1", "u2"}

\* Values typed after --add / --remove; " u1" is "u1" with surrounding blanks.
Values == {"u1", " u1", "u2"}

\* str::trim
Trim(v) == IF v = " u1" THEN "u1" ELSE v

\* DefaultHasher over the rss url, printed as a decimal u64.
DefaultHasher(url) == CASE url = "u1" -> "101" [] url = "u2" -> "202" [] OTHER -> "909"

\* str::parse::<u64> succeeds on these strings only.
IsU64(s) == s \in {"101", "202", "303", "909"}

\* Ids typed after --id: two subscriptions' ids, an id of no subscription, and a non-number.
IdArgs == {"101", "202", "303", "abc"}

Catalog == "podcast_list.csv"
AppFiles == {Catalog} \cup IdArgs

\* The names of the files of the download directory, "{podcast}_{title}.mp3", as
\* <<podcast, title>>.
DownloadNames == { <<p, t>> : p \in {"P1", "P2"}, t \in {"t1", "t2", "t4"} }

\* The link written for an item without one.
Placeholder == "-"

\* rss items as the feed documents carry them: complete, without a link, without a guid,
\* and complete with another link.
I1 == [guid |-> "g1", pub_date |-> "d1", title |-> "t1", link |-> "l1"]
I2 == [guid |-> "g2", pub_date |-> "d2", title |-> "t2", link |-> None]
I3 == [guid |-> None, pub_date |-> "d3", title |-> "t3", link |-> "l3"]
I4 == [guid |-> "g4", pub_date |-> "d4", title |-> "t4", link |-> "l4"]
\* An item with the link of I4.
I5 == [guid |-> "g5", pub_date |-> "d5", title |-> "t2", link |-> "l4"]
\* An item whose guid element is there and empty (item.guid() is Some, its value ""),
\* an item without a publish date and an item without a title.
I6 == [guid |-> "", pub_date |-> "d6", title |-> "t6", link |-> None]
I7 == [guid |-> "g7", pub_date |-> None, title |-> "t7", link |-> "l1"]
I8 == [guid |-> "g8", pub_date |-> "d8", title |-> None, link |-> "l1"]

ChannelTitle(url) == IF url = "u1" THEN "P1" ELSE "P2"
ChannelLink(url) == IF url = "u1" THEN "site1" ELSE "site2"

\* A response body: an rss document, or bytes that are no rss document.
Channel(url, items) ==
    [rss |-> TRUE, title |-> ChannelTitle(url), link |-> ChannelLink(url), items |-> items, bytes |-> <<>>]
Raw(bytes) == [rss |-> FALSE, title |-> "", link |-> "", items |-> <<>>, bytes |-> bytes]
NoBody == Raw(<<>>)

\* The episode links of the model's world.
Links == {"l1", "l3", "l4"}

\* The item lists of the feed documents: none, one whose first item has no guid, one
\* with two items that give episodes.
ItemLists == { <<>>, <<I3, I1>>, <<I4, I2>> }

\* Bytes that are no rss document.
Garbage == Raw(<<"x">>)

\* What the server of an episode link may answer with: one or two bytes.
Payloads == { Raw(<<"a">>), Raw(<<"b", "c">>) }

\* The ways a request can fail: <<what send() gave, what copy_to gave>>.
Failures ==
    { <<"NotFoundStatus", "-">>, <<"SendTimeout", "-">>, <<"SendError", "-">>,
      <<"Response", "CopyTimeout">>, <<"Response", "CopyError">> }

\* A world: the bodies each url may be answered with and the ways a request may fail.
World(item_lists, other, failures) ==
    [served |-> [u \in Urls \cup Links |->
                    IF u \in Urls THEN { Channel(u, items) : items \in item_lists } \cup other
                    ELSE Payloads],
     failures |-> failures]

\* The feeds answer with one document or with garbage, or fail before or after the
\* response (`add` reads the channel's title and link only, and drops every Err alike).
AddWorld ==
    World({<<I3, I1>>}, {Garbage},
          { m \in Failures : m[1] = "NotFoundStatus" \/ m[2] = "CopyError" })
\* The feeds answer with one document, always.
SetupWorld == World({<<I3, I1>>}, {}, {})
\* Every answer, and a failure of each Errors variant.
FeedWorld ==
    World(ItemLists, {Garbage},
          { <<"NotFoundStatus", "-">>, <<"SendTimeout", "-">>, <<"Response", "CopyError">> })

(* ------------------------------ files --------------------------------- *)

NoFile == [exists |-> FALSE, rows |-> <<>>]
File(rows) == [exists |-> TRUE, rows |-> rows]

\* FileSystem::open: an existing file is opened (and emptied by WriteTruncate); a
\* missing one is created empty, whatever the permissions asked for.
Open(file, truncate) ==
    IF file.exists /\ ~truncate THEN file ELSE File(<<>>)

\* write_all of data at offset pos of a file opened without truncation: the bytes
\* (rows) from pos are overwritten, what lies beyond the written range stays.
WriteAt(rows, pos, data) ==
    SubSeq(rows, 1, pos) \o data \o SubSeq(rows, pos + Len(data) + 1, Len(rows))

(* ------------------------------- csv ---------------------------------- *)

PodcastHeader == [id |-> "id", url |-> "url", rss_url |-> "rss_url", title |-> "title"]
EpisodeHeader ==
    [guid |-> "guid", title |-> "title", pub_date |-> "pub_date", link |-> "link",
     podcast |-> "podcast", podcast_id |-> "podcast_id"]

\* csv::Writer: the header row is written before the first record, so nothing at all
\* is written when there is no record.
SerializeHeaderFirst(records, header, has_headers) ==
    (IF has_headers THEN <<header>> ELSE <<>>) \o records
Serialize(records, header, has_headers) ==
    IF records = <<>> THEN <<>>
    ELSE (IF has_headers THEN <<header>> ELSE <<>>) \o records

\* csv::Reader (has_headers): the first row is taken as the header row whatever it
\* holds; deserialize() yields one result per later row.
DataRows(rows) == IF rows = <<>> THEN <<>> ELSE Tail(rows)

\* A row deserializes into a Podcast when its id is a u64.
IsPodcast(row) == IsU64(row.id)
\* A row deserializes into an Episode when its podcast_id is a u64.
IsEpisode(row) == IsU64(row.podcast_id)

\* reader.deserialize().filter_map(|item| item.ok())
ReadPodcasts(rows) == SelectSeq(DataRows(rows), IsPodcast)
ReadEpisodes(rows) == SelectSeq(DataRows(rows), IsEpisode)

(* ------------------------------ helpers ------------------------------- *)

Range(s) == { s[i] : i \in 1..Len(s) }

RECURSIVE SeqsUpTo(_, _)
\* The sequences over S of length 1..n.
SeqsUpTo(S, n) ==
    IF n = 0 THEN {}
    ELSE { <<x>> : x \in S } \cup { <<x>> \o s : x \in S, s \in SeqsUpTo(S, n - 1) }

Reverse(s) == [i \in 1..Len(s) |-> s[Len(s) + 1 - i]]

Min(a, b) == IF a <= b THEN a ELSE b

\* The orders a set can be iterated in.
Orders(S) ==
    { s \in [1..Cardinality(S) -> S] : \A i, j \in 1..Cardinality(S) : i # j => s[i] # s[j] }

(* ------------------------- Web::get, as called ------------------------ *)

\* One request of a batch as it went: what send() gave, what copy_to gave when it
\* was reached, and the body read.
Fetch(url, send, copy, body) == [url |-> url, send |-> send, copy |-> copy, body |-> body]

\* The ways one request for url can go.  A link that is no URL (the placeholder)
\* fails in send().
Fetches(url, world) ==
    IF url = Placeholder THEN { Fetch(url, "SendError", "-", NoBody) }
    ELSE { Fetch(url, m[1], m[2], NoBody) : m \in world.failures }
         \cup { Fetch(url, "Response", "CopyOk", b) : b \in world.served[url] }

RECURSIVE Batches(_, _)
\* The ways a batch for urls can go: one request per entry of urls, in its order.
Batches(urls, world) ==
    IF urls = <<>> THEN { <<>> }
    ELSE { <<f>> \o rest : f \in Fetches(Head(urls), world), rest \in Batches(Tail(urls), world) }

\* The Result a request is mapped to: "Success" (with the body), or the Errors variant.
Outcome(f) ==
    CASE f.send = "SendTimeout" -> "Timeout"
      [] f.send = "SendError" -> "Network"
      [] f.send = "NotFoundStatus" -> "NotFound"
      [] f.send = "Response" /\ f.copy = "CopyOk" -> "Success"
      [] OTHER -> "Network"

\* Web::get returns when the thread running join_and_clear ends, which needs the
\* hidden bar temp_pb finished: some request has to get past copy_to.
GetReturns(fetches) == \E i \in 1..Len(fetches) : fetches[i].send = "Response"

(* ----------------------------- the state ------------------------------ *)

\* What an invocation did, and the rows of the subscription catalog as it found them.
Observed(cmd, args, urls, fetches, result, stdout) ==
    [cmd |-> cmd, args |-> args, urls |-> urls, fetches |-> fetches,
     result |-> result, stdout |-> stdout, catalog |-> app_directory[Catalog].rows]

\* No file yet, no invocation yet.
InitFlows ==
    /\ app_directory = [f \in AppFiles |-> NoFile]
    /\ download_directory = [f \in DownloadNames |-> NoFile]
    /\ last = Observed("none", <<>>, <<>>, <<>>, "Ok", <<>>)

\* Web::get called with n urls: temp_pb is added to pbs and the rendering thread is
\* spawned, no request is dispatched yet.
GetCalled(n) ==
    /\ batch = n
    /\ pc = [i \in 1..n |-> "queued"]
    /\ sent = [i \in 1..n |-> "-"]
    /\ copied = [i \in 1..n |-> "-"]
    /\ bars = {0}
    /\ finished = {}
    /\ renderer = "joining"
    /\ responses = [i \in 1..n |-> <<>>]
    /\ get = "par_iter"

Init ==
    /\ InitFlows
    /\ GetCalled(0)

(* ------------------------------ Podcasts ------------------------------ *)

\* The catalog's rss urls as `add` loads them.
SavedUrls(rows) == { p.rss_url : p \in Range(ReadPodcasts(rows)) }

\* "Work only with new URLs"
NewUrlsUnfiltered(values, saved_urls) == [i \in 1..Len(values) |-> Trim(values[i])]
NewUrls(values, saved_urls) ==
    SelectSeq([i \in 1..Len(values) |-> Trim(values[i])], LAMBDA v : v \notin saved_urls)

\* The Podcast built from a response, for the responses that give one.
GivesPodcast(f) == Outcome(f) = "Success" /\ f.body.rss
NewPodcastHashesLink(f) ==
    [id |-> DefaultHasher(f.body.link), url |-> f.body.link, rss_url |-> f.url,
     title |-> f.body.title]
NewPodcast(f) ==
    [id |-> DefaultHasher(f.url), url |-> f.body.link, rss_url |-> f.url, title |-> f.body.title]
NewPodcasts(fetches) ==
    LET kept == SelectSeq(fetches, GivesPodcast)
    IN  [i \in 1..Len(kept) |-> NewPodcast(kept[i])]

\* "If some podcasts were previously saved, append with no headers"
AddHasHeadersAlways(saved_urls) == TRUE
AddHasHeaders(saved_urls) == ~(Cardinality(saved_urls) > 0)

\* podcasts --add values...
PodcastsAdd(values, world) ==
    LET opened == Open(app_directory[Catalog], FALSE)
        saved_urls == SavedUrls(opened.rows)
        urls == NewUrls(values, saved_urls)
    IN  /\ Len(ReadPodcasts(opened.rows)) + Len(urls) <= MaxRows
        /\ \E fetches \in Batches(urls, world) :
            IF ~GetReturns(fetches)
            THEN /\ app_directory' = [app_directory EXCEPT ![Catalog] = opened]
                 /\ last' = Observed("add", values, urls, fetches, "Hang", <<>>)
            ELSE LET written == Serialize(NewPodcasts(fetches), PodcastHeader,
                                          AddHasHeaders(saved_urls))
                 IN  /\ app_directory' =
                            [app_directory EXCEPT ![Catalog] = File(opened.rows \o written)]
                     /\ last' = Observed("add", values, urls, fetches, "Ok", <<>>)
        /\ UNCHANGED <<download_directory, webvars>>

\* The filter of `remove`: a podcast stays when its rss_url is none of the values.
RetainedUnlessFirst(values, podcast) == values[1] # podcast.rss_url
RetainedUntrimmed(values, podcast) ==
    \A i \in 1..Len(values) : Trim(values[i]) # podcast.rss_url
Retained(values, podcast) == \A i \in 1..Len(values) : values[i] # podcast.rss_url

\* podcasts --remove values...
PodcastsRemove(values) ==
    LET contents == Open(app_directory[Catalog], FALSE).rows
        filtered_podcasts ==
            SelectSeq(ReadPodcasts(contents), LAMBDA p : Retained(values, p))
        truncated == Open(File(contents), TRUE)
    IN  /\ app_directory' =
            [app_directory EXCEPT ![Catalog] =
                File(WriteAt(truncated.rows, 0, Serialize(filtered_podcasts, PodcastHeader, TRUE)))]
        /\ last' = Observed("remove", values, <<>>, <<>>, "Ok", <<>>)
        /\ UNCHANGED <<download_directory, webvars>>

RECURSIVE ListPodcasts(_)
\* Podcasts::list: every row is printed until one does not deserialize.
ListPodcasts(rows) ==
    IF rows = <<>> THEN [result |-> "Ok", stdout |-> <<>>]
    ELSE IF ~IsPodcast(Head(rows)) THEN [result |-> "Err", stdout |-> <<>>]
    ELSE LET rest == ListPodcasts(Tail(rows))
         IN  [result |-> rest.result, stdout |-> <<Head(rows)>> \o rest.stdout]

\* podcasts --list
PodcastsList ==
    LET opened == Open(app_directory[Catalog], FALSE)
        listed == ListPodcasts(DataRows(opened.rows))
    IN  /\ app_directory' = [app_directory EXCEPT ![Catalog] = opened]
        /\ last' = Observed("podcasts list", <<>>, <<>>, <<>>, listed.result, listed.stdout)
        /\ UNCHANGED <<download_directory, webvars>>

(* ------------------------------ Episodes ------------------------------ *)

\* The ids given with --id that parse as u64.
ParsedIds(ids) == { id \in Range(ids) : IsU64(id) }

\* The Episode built from a feed item, for the items that give one.
GivesEpisode(item) == item.guid # None /\ item.pub_date # None /\ item.title # None
NewEpisode(item, podcast_title, podcast_id) ==
    [guid |-> item.guid, title |-> item.title, pub_date |-> item.pub_date,
     link |-> IF item.link = None THEN Placeholder ELSE item.link,
     podcast |-> podcast_title, podcast_id |-> podcast_id]
NewEpisodes(body, podcast_id) ==
    LET kept == SelectSeq(body.items, GivesEpisode)
    IN  [i \in 1..Len(kept) |-> NewEpisode(kept[i], body.title, podcast_id)]

\* urls_map: the HashMap from rss url to id collected from the podcasts, a later
\* podcast replacing an earlier one of the same url.
UrlsMapByPosition(podcasts, url) == podcasts[1].id
UrlsMap(podcasts, url) ==
    LET at == { i \in 1..Len(podcasts) : podcasts[i].rss_url = url }
    IN  podcasts[CHOOSE i \in at : \A j \in at : j <= i].id

\* The permissions the update branch opens each episode catalog with: Write.
UpdateTruncatesOnOpen == TRUE
UpdateTruncates == FALSE

RECURSIVE OpenAll(_, _, _)
\* The directory after FileSystem::open on every name of names.
OpenAll(dir, names, truncate) ==
    IF names = <<>> THEN dir
    ELSE OpenAll([dir EXCEPT ![Head(names)] = Open(dir[Head(names)], truncate)],
                 Tail(names), truncate)

RECURSIVE UpdateLoop(_, _, _, _, _, _)
\* The loop of Episodes::update over the responses from the i-th on: writers are the ids
\* whose file is open, dir is the directory so far and pos each writer's file offset.
UpdateLoop(podcasts, writers, fetches, i, dir, pos) ==
    IF i > Len(fetches) THEN [dir |-> dir, result |-> "Ok"]
    ELSE LET f == fetches[i]
         IN  IF Outcome(f) # "Success" THEN [dir |-> dir, result |-> Outcome(f)]
             ELSE IF ~f.body.rss THEN UpdateLoop(podcasts, writers, fetches, i + 1, dir, pos)
             ELSE LET podcast_id == UrlsMap(podcasts, f.url)
                      data == Serialize(NewEpisodes(f.body, podcast_id), EpisodeHeader, TRUE)
                      rows == WriteAt(dir[podcast_id].rows, pos[podcast_id], data)
                  IN  IF podcast_id \notin writers THEN [dir |-> dir, result |-> "RSS"]
                      ELSE UpdateLoop(podcasts, writers, fetches, i + 1,
                                      [dir EXCEPT ![podcast_id] = File(rows)],
                                      [pos EXCEPT ![podcast_id] = @ + Len(data)])

\* The podcasts `episodes update --id ids...` works on.
Requested(rows, ids) == SelectSeq(ReadPodcasts(rows), LAMBDA p : p.id \in ParsedIds(ids))

\* println!("Can't open file for podcast {}. {}", podcast.title, error)
CantOpen(podcast) == [cant_open |-> podcast.title]

\* episodes update [--id ids...], blocked being the ids whose episode catalog
\* FileSystem::open gives an Err for.
EpisodesUpdateWith(ids, blocked, world) ==
    LET opened == [app_directory EXCEPT ![Catalog] = Open(app_directory[Catalog], FALSE)]
    IN  /\ UNCHANGED <<download_directory, webvars>>
        /\ IF ids = <<>>
           THEN /\ app_directory' = opened
                /\ last' = Observed("update", ids, <<>>, <<>>, "Ok", <<>>)
           ELSE LET podcasts == Requested(opened[Catalog].rows, ids)
                    unopened == SelectSeq(podcasts, LAMBDA p : p.id \in blocked)
                    writers == SelectSeq(podcasts, LAMBDA p : p.id \notin blocked)
                    files == OpenAll(opened, [i \in 1..Len(writers) |-> writers[i].id],
                                     UpdateTruncates)
                    urls == [i \in 1..Len(podcasts) |-> podcasts[i].rss_url]
                    stdout == [i \in 1..Len(unopened) |-> CantOpen(unopened[i])]
                IN  \E fetches \in Batches(urls, world) :
                        IF ~GetReturns(fetches)
                        THEN /\ app_directory' = files
                             /\ last' = Observed("update", ids, urls, fetches, "Hang", stdout)
                        ELSE LET done == UpdateLoop(podcasts,
                                                    { writers[i].id : i \in 1..Len(writers) },
                                                    fetches, 1, files, [f \in AppFiles |-> 0])
                             IN  /\ app_directory' = done.dir
                                 /\ last' = Observed("update", ids, urls, fetches, done.result,
                                                     stdout)

\* episodes update [--id ids...] with every episode catalog opened.
EpisodesUpdate(ids, world) == EpisodesUpdateWith(ids, {}, world)

\* Episodes::list: the episodes of one catalog, last first.
ListEpisodesStored(rows) == ReadEpisodes(rows)
ListEpisodes(rows) == Reverse(ReadEpisodes(rows))

RECURSIVE ListAll(_, _)
\* The output of Episodes::list over the files of names, in their order.
ListAll(dir, names) ==
    IF names = <<>> THEN <<>>
    ELSE ListEpisodes(dir[Head(names)].rows) \o ListAll(dir, Tail(names))

\* The files the id-less list branch goes through: its loop returns in its first round.
ListedFiles(names) == IF names = <<>> THEN <<>> ELSE <<Head(names)>>

\* episodes list [--id ids...]
EpisodesList(ids) ==
    /\ UNCHANGED <<download_directory, webvars>>
    /\ IF ids # <<>>
       THEN LET files == OpenAll(app_directory, ids, FALSE)
                listed == SelectSeq(ids, IsU64)
            IN  /\ app_directory' = files
                /\ last' = Observed("list", ids, <<>>, <<>>, "Ok", ListAll(files, listed))
       ELSE LET opened == [app_directory EXCEPT ![Catalog] = Open(app_directory[Catalog], FALSE)]
                podcasts == ReadPodcasts(opened[Catalog].rows)
                names == [i \in 1..Len(podcasts) |-> podcasts[i].id]
                files == OpenAll(opened, names, FALSE)
            IN  /\ app_directory' = files
                /\ last' = Observed("list", ids, <<>>, <<>>, "Ok",
                                    ListAll(files, ListedFiles(names)))

\* format!("{}_{}.mp3", episode.podcast, episode.title)
FileName(episode) == <<episode.podcast, episode.title>>

\* The episodes `download` selects: those of the given guids when guids are given,
\* then the first count of them when a count is given.
SelectedLast(rows, episode_ids, count) ==
    LET episodes ==
            SelectSeq(ReadEpisodes(rows),
                      LAMBDA e : episode_ids = <<>> \/ e.guid \in Range(episode_ids))
        n == IF count = <<>> THEN Len(episodes) ELSE Min(count[1], Len(episodes))
    IN  SubSeq(episodes, Len(episodes) - n + 1, Len(episodes))
Selected(rows, episode_ids, count) ==
    LET episodes ==
            SelectSeq(ReadEpisodes(rows),
                      LAMBDA e : episode_ids = <<>> \/ e.guid \in Range(episode_ids))
    IN  SubSeq(episodes, 1, IF count = <<>> THEN Len(episodes) ELSE Min(count[1], Len(episodes)))

\* episodes_map: the HashMap from link to episode, a later episode replacing an
\* earlier one of the same link.
EpisodesMap(episodes, link) ==
    LET at == { i \in 1..Len(episodes) : episodes[i].link = link }
    IN  episodes[CHOOSE i \in at : \A j \in at : j <= i]

\* episode_urls: the keys of episodes_map, in the order the HashMap gives them.
EpisodeUrlsUndeduped(episodes) == { [i \in 1..Len(episodes) |-> episodes[i].link] }
EpisodeUrls(episodes) == Orders({ episodes[i].link : i \in 1..Len(episodes) })

\* Whether FileSystem::open gives a file: an existing file opens, a missing one is
\* created when the directory lets it be.
CanOpen(file) == IF file.exists THEN {TRUE} ELSE BOOLEAN

\* The first response that is an error, 0 when there is none.
FirstError(fetches) ==
    LET errors == { i \in 1..Len(fetches) : Outcome(fetches[i]) # "Success" }
    IN  IF errors = {} THEN 0 ELSE CHOOSE i \in errors : \A j \in errors : i <= j

\* Episodes::download over the responses: the first error is returned, else one
\* (file name, bytes) per response.
FilesData(episodes, fetches) ==
    [i \in 1..Len(fetches) |->
        [file_name |-> FileName(EpisodesMap(episodes, fetches[i].url)),
         content |-> fetches[i].body.bytes]]

RECURSIVE WriteFiles(_, _)
\* The download directory after each file of files_data is opened (Write) and written.
WriteFiles(dir, files_data) ==
    IF files_data = <<>> THEN dir
    ELSE LET name == Head(files_data).file_name
             file == Open(dir[name], FALSE)
         IN  WriteFiles([dir EXCEPT ![name] = File(WriteAt(file.rows, 0, Head(files_data).content))],
                        Tail(files_data))

\* episodes download --id podcast_id [--episode-id episode_ids... | --count count]
EpisodesDownload(podcast_id, episode_ids, count, world) ==
    LET episodes_file == Open(app_directory[podcast_id], FALSE)
        episodes == Selected(episodes_file.rows, episode_ids, count)
        args == <<podcast_id, episode_ids, count>>
    IN  /\ UNCHANGED webvars
        /\ \E opens \in CanOpen(app_directory[podcast_id]) :
           IF ~opens
           THEN /\ last' = Observed("download", args, <<>>, <<>>, "WrongID", <<>>)
                /\ UNCHANGED <<app_directory, download_directory>>
           ELSE
           /\ app_directory' = [app_directory EXCEPT ![podcast_id] = episodes_file]
           /\ \E episode_urls \in EpisodeUrls(episodes) :
              \E fetches \in Batches(episode_urls, world) :
                 IF ~GetReturns(fetches)
                 THEN /\ last' = Observed("download", args, episode_urls, fetches, "Hang", <<>>)
                      /\ UNCHANGED download_directory
                 ELSE IF FirstError(fetches) # 0
                 THEN /\ last' = Observed("download", args, episode_urls, fetches,
                                          Outcome(fetches[FirstError(fetches)]), <<>>)
                      /\ UNCHANGED download_directory
                 ELSE /\ last' = Observed("download", args, episode_urls, fetches, "Ok", <<>>)
                      /\ download_directory' =
                             WriteFiles(download_directory, FilesData(episodes, fetches))

\* fs::read_dir(download_directory): the names of its files.  The directory is made
\* by the first FileSystem::open of a file in it.
DownloadedEpisodes == { name \in DownloadNames : download_directory[name].exists }

\* Episodes::list_downloaded: the episodes whose file is downloaded, last first, those
\* at an index below count passed over.
ListDownloaded(rows, downloaded_episodes, count) ==
    LET episodes ==
            SelectSeq(ReadEpisodes(rows), LAMBDA e : FileName(e) \in downloaded_episodes)
        listed == Reverse(episodes)
    IN  SubSeq(listed, (IF count = <<>> THEN 0 ELSE count[1]) + 1, Len(listed))

\* episodes download --id podcast_id --list [--count count]
EpisodesListDownloaded(podcast_id, count) ==
    LET episodes_file == Open(app_directory[podcast_id], FALSE)
        args == <<podcast_id, <<>>, count>>
    IN  /\ UNCHANGED <<download_directory, webvars>>
        /\ \E opens \in CanOpen(app_directory[podcast_id]) :
           IF ~opens
           THEN /\ last' = Observed("list_downloaded", args, <<>>, <<>>, "WrongID", <<>>)
                /\ UNCHANGED app_directory
           ELSE
           /\ app_directory' = [app_directory EXCEPT ![podcast_id] = episodes_file]
           /\ IF DownloadedEpisodes = {}
              THEN last' = Observed("list_downloaded", args, <<>>, <<>>, "IO", <<>>)
              ELSE last' = Observed("list_downloaded", args, <<>>, <<>>, "Ok",
                                    ListDownloaded(episodes_file.rows, DownloadedEpisodes, count))

(* --------------------------- Web::get itself --------------------------- *)

\* The requests a pool thread is working on.
InFlight == { i \in 1..batch : pc[i] \notin {"queued", "done"} }

\* A thread of the pool is free to take a url: the pool has PoolSize threads and a
\* thread runs one closure to its end.
ThreadAlwaysFree == TRUE
ThreadFree == Cardinality(InFlight) < PoolSize

\* par_iter hands a url to a thread of the pool when one is free.
Dispatch(i) ==
    /\ i \in 1..batch
    /\ pc[i] = "queued"
    /\ ThreadFree
    /\ pc' = [pc EXCEPT ![i] = "send"]
    /\ UNCHANGED <<flowvars, batch, sent, copied, bars, finished, renderer, responses, get>>

\* self.client.get(url).send() ends: with an error or a 404 the closure returns, with
\* another response the request's bar is added to pbs and copy_to starts.
Send(i) ==
    /\ i \in 1..batch
    /\ pc[i] = "send"
    /\ \E s \in {"Response", "NotFoundStatus", "SendTimeout", "SendError"} :
          /\ sent' = [sent EXCEPT ![i] = s]
          /\ pc' = [pc EXCEPT ![i] = IF s = "Response" THEN "copy_to" ELSE "done"]
          /\ bars' = IF s = "Response" THEN bars \cup {i} ELSE bars
          /\ responses' =
                IF s = "Response" THEN responses
                ELSE [responses EXCEPT ![i] = Append(@, Outcome(Fetch(i, s, "-", NoBody)))]
    /\ UNCHANGED <<flowvars, batch, copied, finished, renderer, get>>

\* response.copy_to(&mut buffer) ends, temp_pb.finish_and_clear() is called, the
\* closure returns and drops the buffer with its bar, which finishes the bar.
CopyTo(i) ==
    /\ i \in 1..batch
    /\ pc[i] = "copy_to"
    /\ \E c \in {"CopyOk", "CopyTimeout", "CopyError"} :
          /\ copied' = [copied EXCEPT ![i] = c]
          /\ responses' =
                [responses EXCEPT ![i] = Append(@, Outcome(Fetch(i, sent[i], c, NoBody)))]
    /\ pc' = [pc EXCEPT ![i] = "done"]
    /\ finished' = finished \cup {0, i}
    /\ UNCHANGED <<flowvars, batch, sent, bars, renderer, get>>

\* pbs.join_and_clear() returns when every bar added to pbs so far is finished.
RendererEnds ==
    /\ renderer = "joining"
    /\ bars \subseteq finished
    /\ renderer' = "ended"
    /\ UNCHANGED <<flowvars, batch, pc, sent, copied, bars, finished, responses, get>>

\* collect() ends when the closure of every url has returned.
SomeReturned == \E i \in 1..batch : pc[i] = "done"
AllReturned == \A i \in 1..batch : pc[i] = "done"

\* collect() has every response: thread.join() is called.
Collect ==
    /\ get = "par_iter"
    /\ AllReturned
    /\ get' = "thread.join"
    /\ UNCHANGED <<flowvars, batch, pc, sent, copied, bars, finished, renderer, responses>>

\* thread.join() returns once the rendering thread has ended, and get returns.
Return ==
    /\ get = "thread.join"
    /\ renderer = "ended"
    /\ get' = "returned"
    /\ UNCHANGED <<flowvars, batch, pc, sent, copied, bars, finished, renderer, responses>>

\* The responses of the call, in the order of the urls.
Responses == [i \in 1..batch |-> Outcome(Fetch(i, sent[i], copied[i], NoBody))]

(* --------------------- the flows around Web::get ---------------------- *)

\* A flow calls Web::get and goes on with what the call returns: the call is one step
\* of the flow, the requests run, and the flow's writes are the step after.

\* Web::get has returned to the flow that called it.
GetReturnedEarly == SomeReturned
GetReturned == get = "returned"

\* The flow calls Web::get with n urls: the state of GetCalled(n) is the next one.
CallsGet(n) ==
    /\ batch' = n
    /\ pc' = [i \in 1..n |-> "queued"]
    /\ sent' = [i \in 1..n |-> "-"]
    /\ copied' = [i \in 1..n |-> "-"]
    /\ bars' = {0}
    /\ finished' = {}
    /\ renderer' = "joining"
    /\ responses' = [i \in 1..n |-> <<>>]
    /\ get' = "par_iter"

\* An invocation has called Web::get and not gone on yet.
Pending == last.result = "Pending"

RECURSIVE ReturnedFrom(_, _, _)
\* The (url, result) pairs the call under way returns for urls from the i-th on, a
\* Success carrying one of the bodies the world serves.
ReturnedFrom(urls, world, i) ==
    IF i > Len(urls) THEN { <<>> }
    ELSE LET f == Fetch(urls[i], sent[i], copied[i], NoBody)
             bodies == IF Outcome(f) = "Success" THEN world.served[urls[i]] ELSE { NoBody }
         IN  { <<Fetch(urls[i], sent[i], copied[i], b)>> \o rest :
                 b \in bodies, rest \in ReturnedFrom(urls, world, i + 1) }

\* podcasts --add values..., up to the call of Web::get.
AddCalls(values) ==
    LET opened == Open(app_directory[Catalog], FALSE)
        urls == NewUrls(values, SavedUrls(opened.rows))
    IN  /\ ~Pending
        /\ Len(ReadPodcasts(opened.rows)) + Len(urls) <= MaxRows
        /\ app_directory' = [app_directory EXCEPT ![Catalog] = opened]
        /\ last' = Observed("add", values, urls, <<>>, "Pending", <<>>)
        /\ CallsGet(Len(urls))
        /\ UNCHANGED download_directory

\* podcasts --add, from the return of Web::get on.
AddReturns(world) ==
    LET saved_urls == SavedUrls(app_directory[Catalog].rows)
    IN  /\ Pending /\ last.cmd = "add"
        /\ GetReturned
        /\ \E fetches \in ReturnedFrom(last.urls, world, 1) :
              /\ app_directory' =
                    [app_directory EXCEPT ![Catalog] =
                        File(@.rows \o Serialize(NewPodcasts(fetches), PodcastHeader,
                                                 AddHasHeaders(saved_urls)))]
              /\ last' = Observed("add", last.args, last.urls, fetches, "Ok", <<>>)
        /\ UNCHANGED <<download_directory, webvars>>

\* episodes update --id ids..., up to the call of Web::get.
UpdateCalls(ids) ==
    LET opened == [app_directory EXCEPT ![Catalog] = Open(app_directory[Catalog], FALSE)]
        podcasts == Requested(opened[Catalog].rows, ids)
        urls == [i \in 1..Len(podcasts) |-> podcasts[i].rss_url]
    IN  /\ ~Pending
        /\ app_directory' =
              OpenAll(opened, [i \in 1..Len(podcasts) |-> podcasts[i].id], UpdateTruncates)
        /\ last' = Observed("update", ids, urls, <<>>, "Pending", <<>>)
        /\ CallsGet(Len(urls))
        /\ UNCHANGED download_directory

\* episodes update, from the return of Web::get on.
UpdateReturns(world) ==
    LET podcasts == Requested(app_directory[Catalog].rows, last.args)
    IN  /\ Pending /\ last.cmd = "update"
        /\ GetReturned
        /\ \E fetches \in ReturnedFrom(last.urls, world, 1) :
              LET done == UpdateLoop(podcasts, { podcasts[i].id : i \in 1..Len(podcasts) },
                                     fetches, 1, app_directory, [f \in AppFiles |-> 0])
              IN  /\ app_directory' = done.dir
                  /\ last' = Observed("update", last.args, last.urls, fetches, done.result, <<>>)
        /\ UNCHANGED <<download_directory, webvars>>

\* episodes download --id podcast_id, up to the call of Web::get.
DownloadCalls(podcast_id) ==
    LET episodes_file == Open(app_directory[podcast_id], FALSE)
        episodes == Selected(episodes_file.rows, <<>>, <<>>)
    IN  /\ ~Pending
        /\ app_directory' = [app_directory EXCEPT ![podcast_id] = episodes_file]
        /\ \E episode_urls \in EpisodeUrls(episodes) :
              /\ last' = Observed("download", <<podcast_id, <<>>, <<>>>>, episode_urls, <<>>,
                                  "Pending", <<>>)
              /\ CallsGet(Len(episode_urls))
        /\ UNCHANGED download_directory

\* episodes download, from the return of Web::get on.
DownloadReturns(world) ==
    LET episodes == Selected(app_directory[last.args[1]].rows, <<>>, <<>>)
    IN  /\ Pending /\ last.cmd = "download"
        /\ GetReturned
        /\ \E fetches \in ReturnedFrom(last.urls, world, 1) :
              IF FirstError(fetches) # 0
              THEN /\ last' = Observed("download", last.args, last.urls, fetches,
                                       Outcome(fetches[FirstError(fetches)]), <<>>)
                   /\ UNCHANGED download_directory
              ELSE /\ last' = Observed("download", last.args, last.urls, fetches, "Ok", <<>>)
                   /\ download_directory' =
                          WriteFiles(download_directory, FilesData(episodes, fetches))
        /\ UNCHANGED <<app_directory, webvars>>

(* --------------------------- specifications --------------------------- *)

\* The subscription flows, with every request value list.
Next ==
    \/ \E values \in SeqsUpTo(Values, MaxValues) : PodcastsAdd(values, AddWorld)
    \/ \E values \in SeqsUpTo(Values, MaxValues) : PodcastsRemove(values)
    \/ PodcastsList

Spec == Init /\ [][Next]_vars

\* The id lists given to `episodes update`: none, one subscription's, two
\* subscriptions', and the id of no subscription.
UpdateArgs == { <<>>, <<"101">>, <<"202">>, <<"101", "202">>, <<"303">> }

\* The update flow, on the catalogs that `add` of one or two urls leaves.
NextUpdate ==
    \/ \E values \in { <<"u1">>, <<"u2">> } : PodcastsAdd(values, SetupWorld)
    \/ \E ids \in UpdateArgs : EpisodesUpdate(ids, FeedWorld)

SpecUpdate == Init /\ [][NextUpdate]_vars

\* The update flow, on the catalog that `add` of twice the same url leaves: two rows
\* of one rss_url and one id.
NextUpdateShared ==
    \/ PodcastsAdd(<<"u1", "u1">>, SetupWorld)
    \/ EpisodesUpdate(<<"101">>, FeedWorld)

SpecUpdateShared == Init /\ [][NextUpdateShared]_vars

\* The feeds answer with documents whose items lack a field or carry an empty one.
ItemsWorld ==
    World({ <<I7, I2>>, <<I8, I1, I3>>, <<I6, I4>>, <<I2, I6>> }, {}, {})

\* The update flow of one subscription at a time, on feeds with incomplete items.
NextUpdateItems ==
    \/ \E values \in { <<"u1">>, <<"u2">> } : PodcastsAdd(values, SetupWorld)
    \/ \E ids \in { <<"101">>, <<"202">> } : EpisodesUpdate(ids, ItemsWorld)

SpecUpdateItems == Init /\ [][NextUpdateItems]_vars

\* The feeds answer with a document that parses, always.
BlockedWorld == World({ <<I3, I1>>, <<I4, I2>> }, {}, {})

\* The update flow of two subscriptions, the episode catalog of either possibly not to
\* be opened.
NextUpdateBlocked ==
    \/ \E values \in { <<"u1">>, <<"u2">>, <<"u1", "u2">> } : PodcastsAdd(values, SetupWorld)
    \/ \E blocked \in SUBSET {"101", "202"} :
          EpisodesUpdateWith(<<"101", "202">>, blocked, BlockedWorld)

SpecUpdateBlocked == Init /\ [][NextUpdateBlocked]_vars

\* Subscriptions added, updated, removed and added again.
NextReadd ==
    \/ \E values \in { <<"u1">>, <<" u1">>, <<"u2">>, <<"u2", "u1">> } :
          PodcastsAdd(values, SetupWorld)
    \/ \E values \in { <<"u1">>, <<"u2">> } : PodcastsRemove(values)
    \/ \E ids \in { <<"101">>, <<"202">> } : EpisodesUpdate(ids, SetupWorld)

SpecReadd == Init /\ [][NextReadd]_vars

\* The id lists given to `episodes list`.
ListIds == {"101", "202", "abc"}
ListArgs == { <<>> } \cup SeqsUpTo(ListIds, MaxIds)

\* The feeds answer with any document that parses, always.
ParsingWorld == World(ItemLists, {}, {})

\* The list flow, on the catalogs that `add` and `update` leave.
NextList ==
    \/ \E values \in { <<"u1">>, <<"u2">>, <<"u1", "u1">> } : PodcastsAdd(values, SetupWorld)
    \/ \E ids \in { <<"101">>, <<"202">> } : EpisodesUpdate(ids, ParsingWorld)
    \/ \E ids \in ListArgs : EpisodesList(ids)
    \/ PodcastsList

SpecList == Init /\ [][NextList]_vars

\* A link is answered with a payload, or the request fails (`download` returns on
\* every Err alike).
LinkWorld ==
    World({ <<I3, I1>>, <<I4, I1>>, <<I4, I5>> }, {}, { <<"SendTimeout", "-">> })

\* The arguments of `episodes download`: guids, a count, or neither.
GuidArgs == { <<"g1">>, <<"g4">>, <<"g1", "g4">>, <<"g9">> }
CountArgs == { <<n>> : n \in 0..MaxCount }

\* The download flow, on the episode catalogs that `add` and `update` of one
\* subscription leave.
NextDownload ==
    \/ PodcastsAdd(<<"u1">>, SetupWorld)
    \/ EpisodesUpdate(<<"101">>, World({ <<I3, I1>>, <<I4, I1>>, <<I4, I5>> }, {}, {}))
    \/ \E id \in {"101", "303"} :
          \/ \E episode_ids \in GuidArgs : EpisodesDownload(id, episode_ids, <<>>, LinkWorld)
          \/ \E count \in { <<>> } \cup CountArgs : EpisodesDownload(id, <<>>, count, LinkWorld)

SpecDownload == Init /\ [][NextDownload]_vars

\* Every link is answered with the one-byte payload.
PayloadWorld ==
    [served |-> [u \in Urls \cup Links |-> { Raw(<<"a">>) }], failures |-> {}]

\* The listing of the downloaded episodes, on the catalogs and the files that `add`,
\* `update` and `download` of one subscription leave.
NextListDownloaded ==
    \/ PodcastsAdd(<<"u1">>, SetupWorld)
    \/ EpisodesUpdate(<<"101">>, World({ <<I3, I1>>, <<I4, I1>>, <<I4, I5>> }, {}, {}))
    \/ \E episode_ids \in { <<"g1">>, <<"g4">>, <<"g5">> } :
          EpisodesDownload("101", episode_ids, <<>>, PayloadWorld)
    \/ \E id \in {"101", "303"} :
       \E count \in { <<>> } \cup CountArgs : EpisodesListDownloaded(id, count)

SpecListDownloaded == Init /\ [][NextListDownloaded]_vars

\* The feeds answer with one document and the links with one payload.
CallsWorld ==
    [served |-> [u \in Urls \cup Links |->
                    IF u \in Urls THEN { Channel(u, <<I3, I1>>) } ELSE { Raw(<<"a">>) }],
     failures |-> Failures]

\* The add, update and download flows with the Web::get call of each run request by
\* request.
NextCalls ==
    \/ AddCalls(<<"u1", "u2">>)
    \/ AddReturns(CallsWorld)
    \/ UpdateCalls(<<"101", "202">>)
    \/ UpdateReturns(CallsWorld)
    \/ DownloadCalls("101")
    \/ DownloadReturns(CallsWorld)
    \/ \E i \in 1..batch : Dispatch(i)
    \/ \E i \in 1..batch : Send(i)
    \/ \E i \in 1..batch : CopyTo(i)
    \/ RendererEnds
    \/ Collect
    \/ Return

SpecCalls == Init /\ [][NextCalls]_vars

InitWeb ==
    /\ InitFlows
    /\ \E n \in 0..MaxBatch : GetCalled(n)

NextWeb ==
    \/ \E i \in 1..batch : Dispatch(i)
    \/ \E i \in 1..batch : Send(i)
    \/ \E i \in 1..batch : CopyTo(i)
    \/ RendererEnds
    \/ Collect
    \/ Return

\* One call of Web::get: every thread that can take a step takes one in the end.
SpecWeb ==
    /\ InitWeb
    /\ [][NextWeb]_vars
    /\ \A i \in 1..MaxBatch : WF_vars(Dispatch(i)) /\ WF_vars(Send(i)) /\ WF_vars(CopyTo(i))
    /\ WF_vars(RendererEnds)
    /\ WF_vars(Collect)
    /\ WF_vars(Return)

\* One call of Web::get, of which only this is taken for granted: the call does not stop
\* while a thread of it can take a step.
SpecPool ==
    /\ InitWeb
    /\ [][NextWeb]_vars
    /\ WF_vars(NextWeb)

(* ------------------- the two views of Web::get agree ------------------- *)

\* The call under way as the flows see a call: one Fetch per request.
FetchesOfCall == [i \in 1..batch |-> Fetch(i, sent[i], copied[i], NoBody)]

\* Web::get has returned only if GetReturns says so of its requests.
ReturnedOnlyIfGetReturns == get = "returned" => GetReturns(FetchesOfCall)

\* Web::get returns in the end if GetReturns says so of its requests.
ReturnsIfGetReturns == GetReturns(FetchesOfCall) ~> get = "returned"

(* ------------------------------- claims ------------------------------- *)

\* The rss urls of the rows of a subscription catalog (its header row apart).
RowUrls(rows) == { rows[i].rss_url : i \in 1..Len(rows) } \ { PodcastHeader.rss_url }

\* A step of the named flow: every flow records its own name.
StepOf(cmd) == last'.cmd = cmd /\ vars' # vars

\* The response gave a document that parses.
Parsed(f) == Outcome(f) = "Success" /\ f.body.rss

\* C8: a requested url that, trimmed, is already an rss_url of the catalog is not
\* fetched by `add` and gets no row appended; when every requested url is already
\* there, `add` leaves the catalog's rows as they were.
C8_AddSkipsSavedUrls ==
    [][ StepOf("add") =>
          LET before == app_directory[Catalog].rows
              after == app_directory'[Catalog].rows
              known == { i \in 1..Len(last'.args) : Trim(last'.args[i]) \in RowUrls(before) }
          IN  /\ Len(after) >= Len(before)
              /\ SubSeq(after, 1, Len(before)) = before
              /\ \A i \in known :
                    /\ Trim(last'.args[i]) \notin Range(last'.urls)
                    /\ \A k \in (Len(before) + 1)..Len(after) :
                          after[k].rss_url # Trim(last'.args[i])
              /\ known = 1..Len(last'.args) => after = before /\ last'.urls = <<>>
      ]_vars

\* C8's case: an `add` naming " u1", already in the catalog as "u1", and "u2", which
\* is fetched.
C8_Witness ==
    /\ last.cmd = "add"
    /\ " u1" \in Range(last.args)
    /\ "u1" \in RowUrls(app_directory[Catalog].rows)
    /\ last.urls = <<"u2">>
    /\ last.result = "Ok"

\* C9: no two rows of the subscription catalog have the same rss_url.
C9_UniqueRssUrl ==
    LET rows == app_directory[Catalog].rows
    IN  \A i, j \in 2..Len(rows) : i # j => rows[i].rss_url # rows[j].rss_url

\* C10: the url list handed to one Web::get call holds no url twice.
C10_NoUrlTwice ==
    \A i, j \in 1..Len(last.urls) : i # j => last.urls[i] # last.urls[j]

\* C2: in an update over several subscriptions that returns, with the fetch of one
\* failed and that of another giving a document that parses, the update returns Ok and
\* the episodes of every document that parses are in its subscription's catalog.
C2_FailureDoesNotAbort ==
    ( /\ last.cmd = "update"
      /\ last.result # "Hang"
      /\ \E i, j \in 1..Len(last.fetches) :
            /\ Outcome(last.fetches[i]) # "Success"
            /\ Parsed(last.fetches[j])
            /\ last.fetches[i].url # last.fetches[j].url )
    => /\ last.result = "Ok"
       /\ \A j \in 1..Len(last.fetches) :
             LET f == last.fetches[j]
                 id == DefaultHasher(f.url)
             IN  Parsed(f) =>
                     Range(NewEpisodes(f.body, id)) \subseteq Range(app_directory[id].rows)

\* C3: after an update that returns Ok, the catalog of a subscription whose document
\* parsed holds the header row and the document's episodes, and nothing else.
C3_CatalogReplaced ==
    ( last.cmd = "update" /\ last.result = "Ok" )
    => \A j \in 1..Len(last.fetches) :
           LET f == last.fetches[j]
               id == DefaultHasher(f.url)
           IN  Parsed(f) =>
                   app_directory[id].rows = <<EpisodeHeader>> \o NewEpisodes(f.body, id)

\* C4: an update leaves the rows of the episode catalog of a subscription as they
\* were when no fetch of its url gave a document that parses.
C4_FailedLeftUntouched ==
    [][ StepOf("update") =>
          \A i \in 1..Len(last'.fetches) :
              LET url == last'.fetches[i].url
                  id == DefaultHasher(url)
              IN  (\A j \in 1..Len(last'.fetches) :
                       last'.fetches[j].url = url => ~Parsed(last'.fetches[j]))
                  => app_directory'[id].rows = app_directory[id].rows
      ]_vars

\* C4's case: an update in which the fetch for one subscription failed, its catalog
\* holding episodes, and the document of another subscription parsed.
C4_Witness ==
    /\ last.cmd = "update"
    /\ \E i, j \in 1..Len(last.fetches) :
          /\ Outcome(last.fetches[i]) # "Success"
          /\ app_directory[DefaultHasher(last.fetches[i].url)].rows # <<>>
          /\ Parsed(last.fetches[j])
          /\ last.fetches[j].url # last.fetches[i].url
          /\ j < i

\* C6: `episodes update` without ids fetches the feed of every subscription of the
\* catalog.
C6_UpdateAllWithoutIds ==
    ( last.cmd = "update" /\ last.args = <<>> )
    => Range(last.urls) = RowUrls(app_directory[Catalog].rows)

\* C5: in a download of several links that returns, with the fetch of one failed and
\* that of another succeeded, the download returns Ok and every link fetched has its
\* file in the download directory.
C5_FailedLinkOnlyDropped ==
    ( /\ last.cmd = "download"
      /\ last.result # "Hang"
      /\ \E i, j \in 1..Len(last.fetches) :
            Outcome(last.fetches[i]) # "Success" /\ Outcome(last.fetches[j]) = "Success" )
    => /\ last.result = "Ok"
       /\ \A j \in 1..Len(last.fetches) :
             LET episodes == Selected(app_directory[last.args[1]].rows, last.args[2], last.args[3])
                 name == FileName(EpisodesMap(episodes, last.fetches[j].url))
             IN  Outcome(last.fetches[j]) = "Success" => download_directory[name].exists

\* C7: `episodes list` without ids prints the episodes of every subscription of the
\* catalog.
C7_ListsEverySubscription ==
    ( last.cmd = "list" /\ last.args = <<>> )
    => LET rows == app_directory[Catalog].rows
       IN  \A i \in 2..Len(rows) :
               Range(ReadEpisodes(app_directory[rows[i].id].rows)) \subseteq Range(last.stdout)

\* C12: `remove` with values that are, as a set, the rss urls of the catalog leaves a
\* catalog without data rows.
C12_RemoveAll ==
    [][ ( StepOf("remove") /\ Range(last'.args) = RowUrls(app_directory[Catalog].rows) )
        => DataRows(app_directory'[Catalog].rows) = <<>>
      ]_vars

\* C12's case: a `remove` naming the two rss urls of a catalog of two subscriptions has
\* left it without rows.
C12_Witness ==
    /\ last.cmd = "remove"
    /\ Cardinality(RowUrls(last.catalog)) = 2
    /\ Range(last.args) = RowUrls(last.catalog)
    /\ app_directory[Catalog].rows = <<>>

\* C13: `remove` returns Ok and leaves as the catalog's records those whose rss_url is
\* none of the values, in their order; when no value is an rss_url of the catalog the
\* records are as they were.
C13_RemoveKeepsTheRest ==
    [][ StepOf("remove") =>
          LET before == DataRows(app_directory[Catalog].rows)
              after == DataRows(app_directory'[Catalog].rows)
              kept == { i \in 1..Len(before) : before[i].rss_url \notin Range(last'.args) }
          IN  /\ last'.result = "Ok"
              /\ Len(after) = Cardinality(kept)
              /\ \E at \in [1..Len(after) -> kept] :
                    /\ \A k, m \in 1..Len(after) : k < m => at[k] < at[m]
                    /\ \A k \in 1..Len(after) : after[k] = before[at[k]]
              /\ (Range(last'.args) \cap RowUrls(app_directory[Catalog].rows) = {})
                    => after = before
      ]_vars

\* C13's case: a `remove` naming one subscription of two and a value that is in no
\* row (" u1" is not "u1") has left the other row.
C13_Witness ==
    /\ last.cmd = "remove"
    /\ last.args = <<"u2", " u1">>
    /\ Len(DataRows(last.catalog)) = 2
    /\ Len(DataRows(app_directory[Catalog].rows)) = 1
    /\ app_directory[Catalog].rows[2].rss_url = "u1"

C15_ListReversed ==
    ( last.cmd = "list" /\ Len(last.args) = 1 /\ IsU64(last.args[1]) )
    => LET rows == DataRows(app_directory[last.args[1]].rows)
           parsable == { i \in 1..Len(rows) : IsEpisode(rows[i]) }
           n == Len(last.stdout)
       IN  /\ n = Cardinality(parsable)
           /\ \E at \in [1..n -> parsable] :
                 /\ \A k, m \in 1..n : k < m => at[k] > at[m]
                 /\ \A k \in 1..n : last.stdout[k] = rows[at[k]]

\* C15's case: a list of a catalog that holds two episodes that differ and, between
\* them, a row that does not parse.
C15_Witness ==
    /\ last.cmd = "list"
    /\ Len(last.args) = 1
    /\ Len(last.stdout) >= 2
    /\ last.stdout[1] # last.stdout[2]
    /\ Len(last.stdout) < Len(DataRows(app_directory[last.args[1]].rows))

\* The episodes of the catalog a `download` or a listing of the downloads was given.
CatalogEpisodes == ReadEpisodes(app_directory[last.args[1]].rows)

\* C16: a download of one guid of the catalog whose fetch succeeded leaves the file named
\* for that episode with the bytes fetched as its whole content, and no other file of
\* the download directory changed.
C16_DownloadedFileIsTheBytes ==
    [][ ( /\ StepOf("download")
          /\ last'.result = "Ok"
          /\ Len(last'.args[2]) = 1
          /\ Len(last'.fetches) = 1 )
        => \E i \in 1..Len(CatalogEpisodes') :
              LET e == CatalogEpisodes'[i]
              IN  /\ e.guid = last'.args[2][1]
                  /\ e.link = last'.fetches[1].url
                  /\ download_directory'[FileName(e)] = File(last'.fetches[1].body.bytes)
                  /\ \A name \in DownloadNames \ {FileName(e)} :
                        download_directory'[name] = download_directory[name]
      ]_vars

\* C17: the urls `download` fetches are the links of the episodes whose guid is given,
\* or else of the first min(count, size) episodes of the catalog, or else of all.
C17_DownloadSelection ==
    ( last.cmd = "download" /\ last.result # "WrongID" )
    => LET episode_ids == last.args[2]
           count == last.args[3]
           size == Len(CatalogEpisodes)
           chosen ==
               IF episode_ids # <<>>
               THEN { i \in 1..size : \E k \in 1..Len(episode_ids) :
                                          CatalogEpisodes[i].guid = episode_ids[k] }
               ELSE IF count # <<>>
               THEN { i \in 1..size : i <= count[1] }
               ELSE 1..size
       IN  Range(last.urls) = { CatalogEpisodes[i].link : i \in chosen }

\* C17's case: a download with a count of 1 from a catalog of two episodes with two
\* links has fetched the link of the first.
C17_Witness ==
    /\ last.cmd = "download"
    /\ last.args[3] = <<1>>
    /\ Len(CatalogEpisodes) >= 2
    /\ CatalogEpisodes[1].link # CatalogEpisodes[2].link
    /\ last.urls = <<CatalogEpisodes[1].link>>
    /\ last.result = "Ok"

\* C18: `download` fetches each link of the selected episodes once: as many urls as
\* there are links, none twice, and one response each.
C18_OneFetchPerLink ==
    ( last.cmd = "download" /\ last.result # "WrongID" )
    => LET episodes == Selected(app_directory[last.args[1]].rows, last.args[2], last.args[3])
           links == { episodes[i].link : i \in 1..Len(episodes) }
       IN  /\ Len(last.urls) = Cardinality(links)
           /\ Range(last.urls) = links
           /\ Len(last.fetches) = Len(last.urls)

\* C18's case: a download of two episodes that differ and share their link has fetched
\* that link once and returned Ok.
C18_Witness ==
    /\ last.cmd = "download"
    /\ last.result = "Ok"
    /\ Len(last.urls) = 1
    /\ LET episodes == Selected(app_directory[last.args[1]].rows, last.args[2], last.args[3])
       IN  /\ Len(episodes) = 2
           /\ episodes[1].guid # episodes[2].guid
           /\ episodes[1].link = episodes[2].link

\* C19: the listing of the downloads prints the episodes whose file is in the download
\* directory, last first: all of them without a count, the first min(count, size) of
\* them with one.
C19_ListsMostRecent ==
    ( last.cmd = "list_downloaded" /\ last.result = "Ok" )
    => LET matches ==
               Reverse(SelectSeq(CatalogEpisodes,
                                 LAMBDA e : download_directory[FileName(e)].exists))
           count == last.args[3]
       IN  last.stdout =
               IF count = <<>> THEN matches
               ELSE SubSeq(matches, 1, Min(count[1], Len(matches)))

\* C20: a download for an id whose episode catalog does not exist returns WrongID,
\* fetches nothing and leaves both directories as they were.
C20_WrongIdWithoutCatalog ==
    [][ ( StepOf("download") /\ ~app_directory[last'.args[1]].exists )
        => /\ last'.result = "WrongID"
           /\ last'.urls = <<>>
           /\ app_directory' = app_directory
           /\ download_directory' = download_directory
      ]_vars

\* The fields of item that are missing or empty.
Blank(item) == { k \in {"guid", "pub_date", "title"} : item[k] \in {None, ""} }

\* C21: an update that returns Ok writes, for a document that parses, one row per item
\* whose guid, publish date and title are all there and none of them empty, and no row
\* for any other item; the row of an item without a link has the placeholder as its link.
C21_OnlyCompleteItems ==
    [][ ( StepOf("update") /\ last'.result = "Ok" /\ Len(last'.fetches) = 1
          /\ Parsed(last'.fetches[1]) )
        => LET items == SelectSeq(last'.fetches[1].body.items, LAMBDA item : Blank(item) = {})
               written == ReadEpisodes(SubSeq(app_directory'[last'.args[1]].rows, 1,
                                              Len(items) + 1))
           IN  /\ Len(written) = Len(items)
               /\ \A k \in 1..Len(items) :
                     /\ written[k].guid = items[k].guid
                     /\ written[k].pub_date = items[k].pub_date
                     /\ written[k].title = items[k].title
                     /\ written[k].link =
                            IF items[k].link = None THEN Placeholder ELSE items[k].link
      ]_vars

\* C22: a request that ran into the client's timeout, in send() or in copy_to, has
\* Timeout as its outcome.
C22_TimeoutInEitherPhase ==
    \A i \in 1..batch :
        ( pc[i] = "done" /\ (sent[i] = "SendTimeout" \/ copied[i] = "CopyTimeout") )
        => responses[i] = <<"Timeout">>

\* C23: at every moment of a Web::get call at most PoolSize requests are in flight, and
\* in the end every url of the batch is dispatched (a dispatched url is never queued
\* again).
C23_PoolBoundsInFlight ==
    /\ [](Cardinality(InFlight) <= PoolSize)
    /\ <>(\A i \in 1..batch : pc[i] # "queued")

\* C23's case: a batch of more urls than the pool has threads, every thread of the pool
\* on a request and the url that had to wait dispatched too.
C23_Witness ==
    /\ batch > PoolSize
    /\ Cardinality(InFlight) = PoolSize
    /\ \A i \in 1..batch : pc[i] # "queued"

\* C25: the thread running join_and_clear has not ended while a request of the batch
\* has not completed.
C25_RendererOutlastsRequests ==
    renderer = "ended" => \A i \in 1..batch : pc[i] = "done"

C24_WritesAfterGet ==
    [][ ( app_directory' # app_directory \/ download_directory' # download_directory )
        => /\ InFlight = {}
           /\ Pending => get = "returned" /\ AllReturned
      ]_vars

\* C24's case: a download whose Web::get call of one url has returned has written the
\* file, after an add and an update of two urls each.
C24_Witness ==
    /\ last.cmd = "download" /\ last.result = "Ok"
    /\ batch = 1 /\ get = "returned"
    /\ download_directory[<<"P1", "t1">>].rows = <<"a">>
    /\ Len(app_directory["202"].rows) = 2

\* C26: the subscription catalog is empty, or it is the header row followed by one data
\* row or more, none of them a header row.
C26_HeaderFirstOnly ==
    LET rows == app_directory[Catalog].rows
    IN  \/ rows = <<>>
        \/ /\ Len(rows) >= 2
           /\ rows[1] = PodcastHeader
           /\ \A k \in 2..Len(rows) : rows[k] # PodcastHeader /\ IsPodcast(rows[k])

\* C26's case: a remove has left one of two subscriptions, under the header row.
C26_Witness ==
    /\ last.cmd = "remove"
    /\ Len(last.catalog) = 3
    /\ Len(app_directory[Catalog].rows) = 2
    /\ app_directory[Catalog].rows[1] = PodcastHeader

\* The rows an update appends to no catalog but writes over its start: those the
\* documents of the world give for url, under the id of url.
EpisodesOf(url, world) ==
    UNION { Range(NewEpisodes(body, DefaultHasher(url))) :
                body \in { b \in world.served[url] : b.rss } }

\* C27: every episode row of the catalog of subscription N has N as its podcast_id and
\* was parsed from a document served for the rss_url of subscription N; an update that
\* returns Ok has written, for each outcome whose document parses, the episodes of that
\* document to the catalog of the subscription of the outcome's url.
C27_RowsOfTheirSubscription ==
    /\ \A p \in Range(ReadPodcasts(app_directory[Catalog].rows)) :
          \A e \in Range(ReadEpisodes(app_directory[p.id].rows)) :
              /\ e.podcast_id = p.id
              /\ e \in EpisodesOf(p.rss_url, FeedWorld)
    /\ ( last.cmd = "update" /\ last.result = "Ok" )
       => \A j \in 1..Len(last.fetches) :
             Parsed(last.fetches[j])
             => \E p \in Range(ReadPodcasts(app_directory[Catalog].rows)) :
                   /\ p.rss_url = last.fetches[j].url
                   /\ LET episodes == NewEpisodes(last.fetches[j].body, p.id)
                      IN  SubSeq(ReadEpisodes(app_directory[p.id].rows), 1, Len(episodes))
                              = episodes

\* C27's case: an update of two subscriptions, the catalog holding them in the other
\* order than the ids were given in, has written the episodes of two different documents.
C27_Witness ==
    /\ last.cmd = "update" /\ last.result = "Ok"
    /\ last.args = <<"101", "202">>
    /\ last.urls = <<"u2", "u1">>
    /\ Len(last.fetches) = 2
    /\ Parsed(last.fetches[1]) /\ Parsed(last.fetches[2])
    /\ last.fetches[1].body.items # last.fetches[2].body.items
    /\ Len(ReadEpisodes(app_directory["101"].rows)) > 0
    /\ Len(ReadEpisodes(app_directory["202"].rows)) > 0

\* C28: `podcasts --list` and `episodes list`, with ids or without, leave every file of
\* the app directory as it was and create none.
C28_ListsChangeNothing ==
    [][ ( StepOf("podcasts list") \/ StepOf("list") )
        => app_directory' = app_directory /\ download_directory' = download_directory
      ]_vars

\* The row of the url u as the first `add` of u writes it.
FirstRow(u) ==
    [id |-> IF u = "u1" THEN "101" ELSE "202", url |-> ChannelLink(u), rss_url |-> u,
     title |-> ChannelTitle(u)]

\* C30: whatever was added and removed before, the row the catalog holds for a url is the
\* row the first `add` of that url wrote, id included, and the episode catalog named by
\* that id holds the episodes of that url only.
C30_IdOfUrlOnly ==
    LET rows == DataRows(app_directory[Catalog].rows)
    IN  /\ \A k \in 1..Len(rows) : rows[k].rss_url \in Urls /\ rows[k] = FirstRow(rows[k].rss_url)
        /\ \A u \in Urls :
              \A e \in Range(ReadEpisodes(app_directory[FirstRow(u).id].rows)) :
                  e.podcast = ChannelTitle(u)

\* C30's case: "u1" was added and updated, then removed, and is added again: the catalog
\* the last `add` found has no row for it, and the row written has the id of the episode
\* catalog the update before the removal wrote.
C30_Witness ==
    /\ last.cmd = "add" /\ last.result = "Ok"
    /\ Trim(last.args[1]) = "u1"
    /\ "u1" \notin RowUrls(last.catalog)
    /\ Len(ReadEpisodes(app_directory["101"].rows)) > 0
    /\ \E k \in 2..Len(app_directory[Catalog].rows) :
          app_directory[Catalog].rows[k] = FirstRow("u1")

\* C11: when Web::get has returned, every requested url has exactly one entry, written
\* once, its outcome one of Success, Timeout, NotFound and Network, and there is no
\* entry for anything else.
C11_OneOutcomePerUrl ==
    get = "returned" =>
        /\ DOMAIN responses = 1..batch
        /\ \A i \in 1..batch :
              /\ Len(responses[i]) = 1
              /\ responses[i][1] \in {"Success", "Timeout", "NotFound", "Network"}
              /\ responses[i][1] = Responses[i]

\* C11's case: a call of three urls or more has returned with a Success, a NotFound and
\* a Timeout among its entries.
C11_Witness ==
    /\ get = "returned"
    /\ batch >= 3
    /\ \E i, j, k \in 1..batch :
          /\ responses[i] = <<"Success">>
          /\ responses[j] = <<"NotFound">>
          /\ responses[k] = <<"Timeout">>

\* C1: whatever the batch, Web::get returns in the end.
C1_GetReturns == <>(get = "returned")
====
